---- MODULE Spec2Model ----
(***************************************************************************)
(* Model of the IoAwaitable protocol of d4003-io-awaitables.cpp: the       *)
(* coroutine promise mixin io_awaitable_support, task<T>, the thread-local *)
(* frame allocator slot, and the run_sync launcher.                        *)
(*                                                                         *)
(* A coroutine frame ("computation record") is a number 1..MaxRec; 0 is    *)
(* the null handle and, for cont_, std::noop_coroutine().  One thread      *)
(* executes: `running` is the coroutine that currently has control, 0 when *)
(* control is in ordinary (non-coroutine) code.                            *)
(*                                                                         *)
(* Spec lets callers and coroutine bodies do anything the protocol allows; *)
(* SpecMain executes main() with its coroutines parent_task, compute and   *)
(* void_task step by step through the same actions; SpecEq applies         *)
(* executor_ref::operator== to pairs of handles.                           *)
(***************************************************************************)
EXTENDS Integers, Sequences, FiniteSets, TLC

\* ---------------------------------------------------------------- bounds
MaxRec == 3
MaxSlot == 2
MaxRoots == 1
MaxVal == 1
MaxFrames == 5
MaxAddr == 2
MaxCtx == 2

\* ---------------------------------------------------- program constants
ptr_alignment == 8
ptr_size == 8

\* ------------------------------------------------------------- universes
Recs == 1..MaxFrames
Slots == 1..MaxSlot
Values == 1..MaxVal
Noop == 0
Allocs == {"A", "B"}
AllocOrNone == Allocs \cup {"none"}

\* sizeof the coroutine frame the compiler passes to operator new and operator
\* delete; distinct coroutine functions have distinct frames, some unaligned
frame_size(r) == IF r % 2 = 1 THEN 17 ELSE 24

\* environment pointers: "null" is nullptr, "user" is a snapshot a caller built
\* with an allocator and keeps alive, "rs" is the address of run_sync's local env
NullEnv == "null"
UserEnvs == {"user"}
RsEnv == "rs"
\* struct io_env {executor, stop_token, allocator}
UserEnv(e) == [executor |-> "ex0", stop_token |-> "tok", allocator |-> "A"]

\* the arguments run_sync is called with: the two-argument overload passes
\* std::stop_token{}
RsInputs == {<<"ex1", "nostop">>, <<"ex2", "tok">>}

\* what the reused storage of a dead snapshot may hold
GarbageEnvs == [executor : {"junk"}, stop_token : {"junk"}, allocator : AllocOrNone]

VARIABLES
    nextRec,      \* next unused frame id
    pc,           \* per frame: position of the coroutine (kept when it is destroyed)
    cont_,        \* per frame: io_awaitable_support::cont_
    env_,         \* per frame: io_awaitable_support::env_
    ep_,          \* per frame: promise_type::ep_ (0 = null, else id of the raising frame)
    result_,      \* per frame: task_return_base::result_ (0 = empty optional)
    awaiter,      \* per frame: h_ of the task held by transform_awaiter::a_ (0 = none)
    frame,        \* per frame: the block operator new obtained
    destroyCalls, \* per frame: number of coroutine_handle::destroy calls
    deallocs,     \* the deallocate calls operator delete made in the last destruction
    parent,       \* per frame: the frame that awaited it (0 = none)
    resumes,      \* per frame: times its stored continuation was resumed
    raised,       \* per frame: its body raised
    yielded,      \* what the last await_resume handed to the awaiting body
    seen,         \* the pointer co_await this_coro::environment last yielded
    current_frame_allocator, \* the thread-local slot
    slotState,    \* per caller-level task object: "none" (no object there), "live"
    h_,           \* per caller-level task object: task::h_
    running,      \* the coroutine in control (0 = none)
    rsPc,         \* run_sync: "idle" or "resumed"
    rsH,          \* run_sync: local h
    rsTask,       \* run_sync: parameter t's h_
    rsEnv,        \* run_sync: contents of the storage of local env
    rsEnvLive,    \* run_sync: local env is within its lifetime
    rsOutcome,    \* last run_sync: "none", "threw", "returned"
    rsExc,        \* last run_sync: exception rethrown
    rsValue,      \* last run_sync: value returned
    rsSawPc,      \* last run_sync: position of the root when it was inspected
    ub,           \* a frame has been destroyed twice
    acc,          \* what the executor, stop_token or allocator accessor evaluated in
                  \* the last step yielded (none if the step evaluated none)
    main,         \* main(): position, inputs, locals, the stop_source, what was printed
    eqv           \* executor_ref::operator==: the executor objects in memory, the
                  \* operands and the result

recVars == <<nextRec, pc, cont_, env_, ep_, result_, awaiter, frame, parent,
             resumes, raised>>
histVars == <<yielded, seen>>
destroyVars == <<destroyCalls, deallocs, ub>>
slotVars == <<slotState, h_>>
rsVars == <<rsPc, rsH, rsTask, rsEnv, rsEnvLive, rsOutcome, rsExc, rsValue, rsSawPc>>
auxVars == <<acc, main, eqv>>
genVars == <<recVars, histVars, destroyVars, slotVars, rsVars,
             current_frame_allocator, running>>
vars == <<genVars, auxVars>>

NoFrame == [size |-> 0, served |-> "none", total |-> 0, hdrAt |-> 0, hdr |-> "none"]
NoYield == [kind |-> "none", val |-> 0]
NoEnv == [executor |-> "none", stop_token |-> "none", allocator |-> "none"]
NoAcc == [tag |-> "none", val |-> "none"]
NoMain == [pc |-> "off", call |-> 0, in |-> <<0, 0>>, at |-> [r \in Recs |-> 0],
           a |-> 0, stop |-> FALSE, printed |-> <<>>, result |-> 0]
NoEq == [mem |-> <<>>, a |-> <<>>, b |-> <<>>, r |-> FALSE]

\* ------------------------------------------------------ pure helpers

\* io_awaitable_support::aligned_offset: (n + a - 1) & ~(a - 1), a a power of two
aligned_offset(n) == ((n + ptr_alignment - 1) \div ptr_alignment) * ptr_alignment

\* std::pmr::get_default_resource()
get_default_resource == "default"

operator_new_default(size, slot) ==
    [size |-> size, served |-> get_default_resource,
     total |-> aligned_offset(size) + ptr_size,
     hdrAt |-> aligned_offset(size), hdr |-> get_default_resource]

\* io_awaitable_support::operator new: the block and the pointer written behind the frame
operator_new(size, slot) ==
    LET mr == IF slot = "none" THEN get_default_resource ELSE slot
        ptr_offset == aligned_offset(size)
    IN [size |-> size, served |-> mr, total |-> ptr_offset + ptr_size,
        hdrAt |-> ptr_offset, hdr |-> mr]

operator_delete_unaligned(blk, size) ==
    [mr |-> IF blk.hdrAt = size THEN blk.hdr ELSE "junk", total |-> size + ptr_size]

\* io_awaitable_support::operator delete: reads the pointer back at the offset
\* computed from size (anything else found there is not an allocator) and
\* calls deallocate on it
operator_delete(blk, size) ==
    LET ptr_offset == aligned_offset(size)
        mr == IF blk.hdrAt = ptr_offset THEN blk.hdr ELSE "junk"
    IN [mr |-> mr, total |-> ptr_offset + ptr_size]

continuation_keep(c) == [ret |-> c, left |-> c]

\* io_awaitable_support::continuation: std::exchange(cont_, noop_coroutine())
continuation(c) == [ret |-> c, left |-> Noop]

task_await_suspend_noenv(h, cont, env) == [cont |-> cont, env |-> NullEnv, next |-> h]

task_await_suspend_cont(h, cont, env) == [cont |-> cont, env |-> env, next |-> cont]

\* task::await_suspend: stores continuation and environment, returns h_
task_await_suspend(h, cont, env) == [cont |-> cont, env |-> env, next |-> h]

task_await_resume_noep(ep, res) == [kind |-> "value", exc |-> 0, value |-> res]

\* task::await_resume: rethrow ep_ if set, else move the result out
task_await_resume(ep, res) ==
    IF ep # 0 THEN [kind |-> "failure", exc |-> ep, value |-> 0]
              ELSE [kind |-> "value", exc |-> 0, value |-> res]

sync_allocator_never(fa, cur) == cur

\* the body shared by initial_suspend's awaiter::await_resume and
\* transform_awaiter::await_resume: if(fa && fa != slot) slot = fa
sync_allocator(fa, cur) == IF fa # "none" /\ fa # cur THEN fa ELSE cur

move_ctor_copy(h) == [self |-> h, other |-> h]

\* task(task&& other): h_(std::exchange(other.h_, nullptr))
move_ctor(h) == [self |-> h, other |-> 0]

\* task::release: h_ = nullptr
release(h) == 0

\* promise_type::unhandled_exception: ep_ = std::current_exception()
unhandled_exception(r) == r

set_environment_drop(env) == NullEnv

\* io_awaitable_support::set_environment: env_ = env
set_environment(env) == env

initial_suspend_eager == TRUE

\* initial_suspend's awaiter::await_ready: the coroutine suspends before its body
initial_suspend_ready == FALSE

\* where a coroutine stands when the call that created it returns
created_at == IF initial_suspend_ready THEN "run" ELSE "entry"

run_sync_inspect_noexc(ep, res) == [outcome |-> "returned", exc |-> 0, value |-> res]

\* run_sync after h.resume(): rethrow p.exception() if set, else return p.result()
run_sync_inspect(ep, res) ==
    IF ep # 0 THEN [outcome |-> "threw", exc |-> ep, value |-> 0]
              ELSE [outcome |-> "returned", exc |-> 0, value |-> res]

\* the snapshot an environment pointer refers to (the storage of run_sync's
\* local keeps whatever was last written there)
EnvAt(e) == IF e = RsEnv THEN rsEnv ELSE IF e \in UserEnvs THEN UserEnv(e) ELSE NoEnv

await_transform_env(tag, e) == e

\* io_awaitable_support::await_transform for the four this_coro tags: what the
\* ready awaiter it builds hands to the body
await_transform(tag, e) ==
    CASE tag = "environment" -> e
      [] tag = "executor" -> EnvAt(e).executor
      [] tag = "stop_token" -> EnvAt(e).stop_token
      [] tag = "allocator" -> EnvAt(e).allocator

\* the tags whose awaiter reads through env_
ComponentTags == {"executor", "stop_token", "allocator"}

Terminal(r) == pc[r] \in {"done", "final"}
Allocated(r) == pc[r] # "none"
Live(r) == Allocated(r) /\ destroyCalls[r] = 0

\* coroutine_handle::destroy on frame h: one more destroy call on h; the first
\* one destroys the awaiter temporary of the suspension point (~task of the
\* awaited child), then the promise (~io_awaitable_support destroys cont_)
RECURSIVE destroy(_, _)
destroy(h, dc) ==
    IF dc[h] > 0 THEN [dc EXCEPT ![h] = @ + 1]
    ELSE LET d1 == [dc EXCEPT ![h] = 1]
             d2 == IF awaiter[h] # 0 THEN destroy(awaiter[h], d1) ELSE d1
             d3 == IF cont_[h] # Noop THEN destroy(cont_[h], d2) ELSE d2
         IN d3

\* the fields of a destroyed frame no longer exist
Wipe(f, dc, none) == [r \in Recs |-> IF dc[r] > 0 THEN none ELSE f[r]]

\* the bookkeeping of the destroy calls dc: the deallocate call of each frame
\* destroyed now, with the value the slot holds at that moment
Destroyed(dc, slot) ==
    LET fresh == {r \in Recs : destroyCalls[r] = 0 /\ dc[r] > 0}
    IN /\ destroyCalls' = dc
       /\ deallocs' = {[rec |-> r, active |-> slot,
                        call |-> operator_delete(frame[r], frame[r].size)] : r \in fresh}
       /\ ub' = (\E r \in Recs : dc[r] > 1)

\* h.destroy() from code that touches no frame itself
DoDestroy(h) ==
    LET dc == destroy(h, destroyCalls)
    IN /\ Destroyed(dc, current_frame_allocator)
       /\ cont_' = Wipe(cont_, dc, Noop)
       /\ env_' = Wipe(env_, dc, NullEnv)
       /\ ep_' = Wipe(ep_, dc, 0)
       /\ result_' = Wipe(result_, dc, 0)
       /\ awaiter' = Wipe(awaiter, dc, 0)
       /\ frame' = Wipe(frame, dc, NoFrame)
       /\ resumes' = Wipe(resumes, dc, 0)
       /\ raised' = Wipe(raised, dc, FALSE)

frameVars == <<cont_, env_, ep_, result_, awaiter, frame, resumes, raised>>
NoDestroy == UNCHANGED <<destroyVars, frameVars>>

AtUser == running = 0 /\ rsPc = "idle" /\ ~ub
InCoro(r) == running = r /\ ~ub /\ Live(r)

\* ------------------------------------------------------------------ Init
\* no frame, no task object, the slot empty, run_sync not called
InitGen ==
    /\ nextRec = 1
    /\ pc = [r \in Recs |-> "none"]
    /\ cont_ = [r \in Recs |-> Noop]
    /\ env_ = [r \in Recs |-> NullEnv]
    /\ ep_ = [r \in Recs |-> 0]
    /\ result_ = [r \in Recs |-> 0]
    /\ awaiter = [r \in Recs |-> 0]
    /\ frame = [r \in Recs |-> NoFrame]
    /\ destroyCalls = [r \in Recs |-> 0]
    /\ deallocs = {}
    /\ parent = [r \in Recs |-> 0]
    /\ resumes = [r \in Recs |-> 0]
    /\ raised = [r \in Recs |-> FALSE]
    /\ yielded = NoYield
    /\ seen = NullEnv
    /\ current_frame_allocator = "none"
    /\ slotState = [s \in Slots |-> "none"]
    /\ h_ = [s \in Slots |-> 0]
    /\ running = 0
    /\ rsPc = "idle"
    /\ rsH = 0
    /\ rsTask = 0
    /\ rsEnv = NoEnv
    /\ rsEnvLive = FALSE
    /\ rsOutcome = "none"
    /\ rsExc = 0
    /\ rsValue = 0
    /\ rsSawPc = "none"
    /\ ub = FALSE

Init ==
    /\ InitGen
    /\ acc = NoAcc
    /\ main = NoMain
    /\ eqv = NoEq

\* ------------------------------------------------- caller-level operations

\* calling a coroutine function: operator new, get_return_object,
\* initial_suspend suspends; the caller holds the task
Construct(s) ==
    /\ AtUser
    /\ slotState[s] = "none"
    /\ nextRec <= MaxFrames
    /\ frame' = [frame EXCEPT ![nextRec] =
                    operator_new(frame_size(nextRec), current_frame_allocator)]
    /\ pc' = [pc EXCEPT ![nextRec] = created_at]
    /\ nextRec' = nextRec + 1
    /\ slotState' = [slotState EXCEPT ![s] = "live"]
    /\ h_' = [h_ EXCEPT ![s] = nextRec]
    /\ UNCHANGED <<cont_, env_, ep_, result_, awaiter, parent, resumes, raised,
                   histVars, destroyVars, rsVars, current_frame_allocator, running>>

\* task(task&&)
MoveConstruct(d, s) ==
    /\ AtUser
    /\ slotState[d] = "none"
    /\ slotState[s] = "live"
    /\ LET m == move_ctor(h_[s])
       IN h_' = [h_ EXCEPT ![d] = m.self, ![s] = m.other]
    /\ slotState' = [slotState EXCEPT ![d] = "live"]
    /\ UNCHANGED <<recVars, histVars, destroyVars, rsVars,
                   current_frame_allocator, running>>

\* task::operator=(task&&)
MoveAssign(d, s) ==
    /\ AtUser
    /\ slotState[d] = "live"
    /\ slotState[s] = "live"
    /\ IF d = s
       THEN /\ h_' = h_
            /\ NoDestroy
       ELSE /\ IF h_[d] # 0 THEN DoDestroy(h_[d]) ELSE NoDestroy
            /\ h_' = [h_ EXCEPT ![d] = h_[s], ![s] = 0]
    /\ UNCHANGED <<nextRec, pc, parent, histVars, slotState, rsVars,
                   current_frame_allocator, running>>

\* task::~task
DestroyTask(s) ==
    /\ AtUser
    /\ slotState[s] = "live"
    /\ slotState' = [slotState EXCEPT ![s] = "none"]
    /\ h_' = [h_ EXCEPT ![s] = 0]
    /\ IF h_[s] # 0 THEN DoDestroy(h_[s]) ELSE NoDestroy
    /\ UNCHANGED <<nextRec, pc, parent, histVars, rsVars,
                   current_frame_allocator, running>>

\* current_frame_allocator() = a
SetActiveAllocator(a) ==
    /\ AtUser
    /\ a # current_frame_allocator
    /\ current_frame_allocator' = a
    /\ UNCHANGED <<recVars, histVars, destroyVars, slotVars, rsVars, running>>

\* a driver other than run_sync installs a snapshot: set_environment
SetEnvironment(s, e) ==
    /\ AtUser
    /\ slotState[s] = "live"
    /\ h_[s] # 0
    /\ Live(h_[s])
    /\ pc[h_[s]] = "entry"
    /\ env_[h_[s]] # e
    /\ env_' = [env_ EXCEPT ![h_[s]] = set_environment(e)]
    /\ UNCHANGED <<nextRec, pc, cont_, ep_, result_, awaiter, frame, parent,
                   resumes, raised, histVars, destroyVars, slotVars, rsVars,
                   current_frame_allocator, running>>

\* a driver other than run_sync starts the task: t.handle().resume()
DriverResume(s) ==
    /\ AtUser
    /\ slotState[s] = "live"
    /\ h_[s] # 0
    /\ Live(h_[s])
    /\ pc[h_[s]] = "entry"
    /\ env_[h_[s]] # NullEnv
    /\ running' = h_[s]
    /\ UNCHANGED <<recVars, histVars, destroyVars, slotVars, rsVars,
                   current_frame_allocator>>

\* run_sync up to and including h.resume(): the parameter t is move-constructed
\* from the caller's task
RunSyncStart(s, in) ==
    /\ AtUser
    /\ slotState[s] = "live"
    /\ h_[s] # 0
    /\ Live(h_[s])
    /\ pc[h_[s]] = "entry"
    /\ LET m == move_ctor(h_[s])
           h == m.self
       IN /\ h_' = [h_ EXCEPT ![s] = m.other]
          /\ rsH' = h
          /\ env_' = [env_ EXCEPT ![h] = set_environment(RsEnv)]
          /\ rsTask' = release(h)
          /\ running' = h
    /\ rsEnv' = [executor |-> in[1], stop_token |-> in[2], allocator |-> "none"]
    /\ rsEnvLive' = TRUE
    /\ rsPc' = "resumed"
    /\ rsOutcome' = "none"
    /\ rsExc' = 0
    /\ rsValue' = 0
    /\ rsSawPc' = "none"
    /\ UNCHANGED <<nextRec, pc, cont_, ep_, result_, awaiter, frame, parent,
                   resumes, raised, histVars, destroyVars, slotState,
                   current_frame_allocator>>

\* run_sync after h.resume() returned: inspect exception and, unless the task
\* is a task<void>, result, and return (reading an empty optional yields an
\* arbitrary value); t and env end
RunSyncReturn(junk, void) ==
    /\ rsPc = "resumed"
    /\ running = 0
    /\ ~ub
    /\ LET res == IF void THEN 0 ELSE IF result_[rsH] # 0 THEN result_[rsH] ELSE junk
           o == run_sync_inspect(ep_[rsH], res)
       IN /\ rsOutcome' = o.outcome
          /\ rsExc' = o.exc
          /\ rsValue' = o.value
    /\ rsSawPc' = pc[rsH]
    /\ IF rsTask # 0 THEN DoDestroy(rsTask) ELSE NoDestroy
    /\ rsTask' = 0
    /\ rsEnvLive' = FALSE
    /\ rsPc' = "idle"
    /\ UNCHANGED <<nextRec, pc, parent, histVars, slotVars, rsH, rsEnv,
                   current_frame_allocator, running>>

\* run_sync of a task<int>
RunSyncFinish(junk) == RunSyncReturn(junk, FALSE)

\* the storage of run_sync's local env is reused after run_sync returned
StackReuse(v) ==
    /\ AtUser
    /\ ~rsEnvLive
    /\ \E r \in Recs : Live(r) /\ env_[r] = RsEnv /\ pc[r] = "await_ext"
    /\ v # rsEnv
    /\ rsEnv' = v
    /\ UNCHANGED <<recVars, histVars, destroyVars, slotVars, rsPc, rsH, rsTask,
                   rsEnvLive, rsOutcome, rsExc, rsValue, rsSawPc,
                   current_frame_allocator, running>>

\* ------------------------------------------------------ coroutine steps

\* resumption from initial_suspend: awaiter::await_resume
Start(r) ==
    /\ InCoro(r)
    /\ pc[r] = "entry"
    /\ current_frame_allocator' =
          sync_allocator(EnvAt(env_[r]).allocator, current_frame_allocator)
    /\ pc' = [pc EXCEPT ![r] = "run"]
    /\ UNCHANGED <<nextRec, cont_, env_, ep_, result_, awaiter, frame, parent,
                   resumes, raised, histVars, destroyVars, slotVars, rsVars, running>>

\* co_await this_coro::environment: the awaiter is ready and yields env_
Accessor(r) ==
    /\ InCoro(r)
    /\ pc[r] = "run"
    /\ seen' = await_transform("environment", env_[r])
    /\ UNCHANGED <<recVars, yielded, destroyVars, slotVars, rsVars,
                   current_frame_allocator, running>>

\* co_await this_coro::executor, this_coro::stop_token, this_coro::allocator:
\* the awaiter is ready and yields the component read through env_
AccessorComponent(r, tag) ==
    /\ InCoro(r)
    /\ pc[r] = "run"
    /\ acc' = [tag |-> tag, val |-> await_transform(tag, env_[r])]
    /\ UNCHANGED <<genVars, main, eqv>>

\* co_await child(...): the child frame is created, transform_awaiter holds
\* the task, await_ready is false, await_suspend forwards to task::await_suspend
AwaitChild(r) ==
    /\ InCoro(r)
    /\ pc[r] = "run"
    /\ nextRec <= MaxFrames
    /\ LET c == nextRec
           t == task_await_suspend(c, r, env_[r])
       IN /\ frame' = [frame EXCEPT ![c] =
                          operator_new(frame_size(c), current_frame_allocator)]
          /\ cont_' = [cont_ EXCEPT ![c] = t.cont]
          /\ env_' = [env_ EXCEPT ![c] = t.env]
          /\ pc' = [pc EXCEPT ![c] = created_at,
                              ![r] = IF t.next = r THEN "resumed_child" ELSE "await_child"]
          /\ awaiter' = [awaiter EXCEPT ![r] = c]
          /\ parent' = [parent EXCEPT ![c] = r]
          /\ running' = t.next
    /\ nextRec' = nextRec + 1
    /\ UNCHANGED <<ep_, result_, resumes, raised, histVars, destroyVars, slotVars,
                   rsVars, current_frame_allocator>>

\* co_await of an awaitable whose await_ready is true (immediate_value):
\* transform_awaiter::await_resume
AwaitReady(r, v) ==
    /\ InCoro(r)
    /\ pc[r] = "run"
    /\ current_frame_allocator' =
          sync_allocator(EnvAt(env_[r]).allocator, current_frame_allocator)
    /\ yielded' = [kind |-> "value", val |-> v]
    /\ UNCHANGED <<recVars, seen, destroyVars, slotVars, rsVars, running>>

\* co_await of an awaitable whose await_suspend returns noop_coroutine()
\* without having resumed the continuation
AwaitPending(r) ==
    /\ InCoro(r)
    /\ pc[r] = "run"
    /\ pc' = [pc EXCEPT ![r] = "await_ext"]
    /\ running' = 0
    /\ UNCHANGED <<nextRec, cont_, env_, ep_, result_, awaiter, frame, parent,
                   resumes, raised, histVars, destroyVars, slotVars, rsVars,
                   current_frame_allocator>>

\* the awaitable completes and resumes the handle it was given:
\* transform_awaiter::await_resume
AwaitableComplete(r, v) ==
    /\ AtUser
    /\ Live(r)
    /\ pc[r] = "await_ext"
    /\ running' = r
    /\ current_frame_allocator' =
          sync_allocator(EnvAt(env_[r]).allocator, current_frame_allocator)
    /\ yielded' = [kind |-> "value", val |-> v]
    /\ pc' = [pc EXCEPT ![r] = "run"]
    /\ UNCHANGED <<nextRec, cont_, env_, ep_, result_, awaiter, frame, parent,
                   resumes, raised, seen, destroyVars, slotVars, rsVars>>

\* the body raises: unhandled_exception
Throw(r) ==
    /\ InCoro(r)
    /\ pc[r] = "run"
    /\ ep_' = [ep_ EXCEPT ![r] = unhandled_exception(r)]
    /\ raised' = [raised EXCEPT ![r] = TRUE]
    /\ pc' = [pc EXCEPT ![r] = "done"]
    /\ UNCHANGED <<nextRec, cont_, env_, result_, awaiter, frame, parent,
                   resumes, histVars, destroyVars, slotVars, rsVars,
                   current_frame_allocator, running>>

\* co_return v: return_value
Return(r, v) ==
    /\ InCoro(r)
    /\ pc[r] = "run"
    /\ result_' = [result_ EXCEPT ![r] = v]
    /\ pc' = [pc EXCEPT ![r] = "done"]
    /\ UNCHANGED <<nextRec, cont_, env_, ep_, awaiter, frame, parent,
                   resumes, raised, histVars, destroyVars, slotVars, rsVars,
                   current_frame_allocator, running>>

\* co_return; in a task<void>: return_void
ReturnVoid(r) ==
    /\ InCoro(r)
    /\ pc[r] = "run"
    /\ pc' = [pc EXCEPT ![r] = "done"]
    /\ UNCHANGED <<nextRec, cont_, env_, ep_, result_, awaiter, frame, parent,
                   resumes, raised, histVars, destroyVars, slotVars, rsVars,
                   current_frame_allocator, running>>

\* final_suspend: awaiter::await_suspend returns p_->continuation()
FinalSuspend(r) ==
    /\ InCoro(r)
    /\ pc[r] = "done"
    /\ LET k == continuation(cont_[r])
       IN /\ cont_' = [cont_ EXCEPT ![r] = k.left]
          /\ running' = k.ret
          /\ pc' = IF k.ret # Noop
                   THEN [pc EXCEPT ![r] = "final", ![k.ret] = "resumed_child"]
                   ELSE [pc EXCEPT ![r] = "final"]
          /\ resumes' = [resumes EXCEPT ![r] = IF k.ret # Noop THEN @ + 1 ELSE @]
    /\ UNCHANGED <<nextRec, env_, ep_, result_, awaiter, frame, parent,
                   raised, histVars, destroyVars, slotVars, rsVars,
                   current_frame_allocator>>

\* the awaiting frame continues: transform_awaiter::await_resume, then
\* task::await_resume; a failure is caught by the body (handled) or goes to
\* unhandled_exception; the awaiter temporary with the child task is destroyed
AwaitResumeChild(r, handled) ==
    /\ InCoro(r)
    /\ pc[r] = "resumed_child"
    /\ awaiter[r] # 0
    /\ LET c == awaiter[r]
           o == task_await_resume(ep_[c], result_[c])
           slot == sync_allocator(EnvAt(env_[r]).allocator, current_frame_allocator)
           dc == destroy(c, destroyCalls)
           unhandled == o.kind = "failure" /\ ~handled
       IN /\ o.kind = "value" => handled
          /\ current_frame_allocator' = slot
          /\ yielded' = [kind |-> o.kind,
                         val |-> IF o.kind = "failure" THEN o.exc ELSE o.value]
          /\ pc' = [pc EXCEPT ![r] = IF unhandled THEN "done" ELSE "run"]
          /\ Destroyed(dc, slot)
          /\ ep_' = Wipe([ep_ EXCEPT ![r] = IF unhandled THEN o.exc ELSE @], dc, 0)
          /\ awaiter' = Wipe([awaiter EXCEPT ![r] = 0], dc, 0)
          /\ cont_' = Wipe(cont_, dc, Noop)
          /\ env_' = Wipe(env_, dc, NullEnv)
          /\ result_' = Wipe(result_, dc, 0)
          /\ frame' = Wipe(frame, dc, NoFrame)
          /\ resumes' = Wipe(resumes, dc, 0)
          /\ raised' = Wipe(raised, dc, FALSE)
    /\ UNCHANGED <<nextRec, parent, seen, slotVars, rsVars, running>>

\* the bounds of the exploration: frames created, root tasks created
Bounded == nextRec <= MaxRec
RootsBounded == Cardinality({r \in Recs : Allocated(r) /\ parent[r] = 0}) < MaxRoots

\* a step that evaluates no component accessor
Other == acc' = NoAcc /\ UNCHANGED <<main, eqv>>

Next ==
    \/ \E s \in Slots : Bounded /\ RootsBounded /\ Construct(s) /\ Other
    \/ \E d, s \in Slots : MoveConstruct(d, s) /\ Other
    \/ \E d, s \in Slots : MoveAssign(d, s) /\ Other
    \/ \E s \in Slots : DestroyTask(s) /\ Other
    \/ \E a \in AllocOrNone : SetActiveAllocator(a) /\ Other
    \/ \E s \in Slots, e \in UserEnvs : SetEnvironment(s, e) /\ Other
    \/ \E s \in Slots : DriverResume(s) /\ Other
    \/ \E s \in Slots, in \in RsInputs : RunSyncStart(s, in) /\ Other
    \/ \E junk \in Values : RunSyncFinish(junk) /\ Other
    \/ \E v \in GarbageEnvs : StackReuse(v) /\ Other
    \/ \E r \in Recs : Start(r) /\ Other
    \/ \E r \in Recs : Accessor(r) /\ Other
    \/ \E r \in Recs, tag \in ComponentTags : AccessorComponent(r, tag)
    \/ \E r \in Recs : Bounded /\ AwaitChild(r) /\ Other
    \/ \E r \in Recs, v \in Values : AwaitReady(r, v) /\ Other
    \/ \E r \in Recs : AwaitPending(r) /\ Other
    \/ \E r \in Recs, v \in Values : AwaitableComplete(r, v) /\ Other
    \/ \E r \in Recs : Throw(r) /\ Other
    \/ \E r \in Recs, v \in Values : Return(r, v) /\ Other
    \/ \E r \in Recs : FinalSuspend(r) /\ Other
    \/ \E r \in Recs, handled \in BOOLEAN : AwaitResumeChild(r, handled) /\ Other

Spec == Init /\ [][Next]_vars

\* ------------------------------------------------ the demonstration program

\* the arguments parent_task passes to compute (3 and 7 in the source)
MainInputs == {1, 3, 7}

stop_requested_never(token, source) == FALSE

\* std::stop_token::stop_requested: the token shares the state of a source on
\* which request_stop was called
stop_requested(token, source) == token = "tok" /\ source

\* immediate_value::await_resume
immediate_value(value_) == value_

\* compute: co_return v + 1
compute_return(v) == v + 1

parent_task_return_first(a, b) == a

\* parent_task: co_return a + b
parent_task_return(a, b) == a + b

\* the coroutine function of a frame: main creates parent_task, which creates
\* compute twice, then void_task twice
fn(r) == IF r = 1 THEN "parent_task" ELSE IF r \in {2, 3} THEN "compute" ELSE "void_task"

\* the argument x of a compute frame
arg(r) == main.in[r - 1]

\* the arguments of the three run_sync calls of main
MainArgs(call) == IF call = 1 THEN <<"ex1", "nostop">> ELSE <<"ex1", "tok">>

InitMain ==
    /\ InitGen
    /\ acc = NoAcc
    /\ eqv = NoEq
    /\ \E x1, x2 \in MainInputs :
          main = [NoMain EXCEPT !.pc = "call", !.call = 1, !.in = <<x1, x2>>]

\* parent_task(), void_task(): the coroutine is created and suspends; the task
\* is the temporary argument of run_sync
MainCreate ==
    /\ main.pc = "call"
    /\ Construct(1)
    /\ main' = [main EXCEPT !.pc = "made"]
    /\ UNCHANGED <<acc, eqv>>

\* run_sync(ex, ...) up to h.resume()
MainRunSync ==
    /\ main.pc = "made"
    /\ RunSyncStart(1, MainArgs(main.call))
    /\ main' = [main EXCEPT !.pc = "driving"]
    /\ UNCHANGED <<acc, eqv>>

\* run_sync returns to main (int result = ...), or its exception ends main
MainRunSyncReturns ==
    /\ main.pc = "driving"
    /\ \E junk \in Values : RunSyncReturn(junk, fn(rsH) = "void_task")
    /\ main' = [main EXCEPT !.pc = IF rsOutcome' = "threw" THEN "terminated" ELSE "ret",
                            !.result = IF main.call = 1 THEN rsValue' ELSE @]
    /\ UNCHANGED <<acc, eqv>>

\* the end of the full expression: the temporary task is destroyed
MainEndCall ==
    /\ main.pc = "ret"
    /\ DestroyTask(1)
    /\ main' = [main EXCEPT !.pc = IF main.call = 1 THEN "call"
                                   ELSE IF main.call = 2 THEN "stop" ELSE "end",
                            !.call = IF main.call = 1 THEN 2 ELSE @]
    /\ UNCHANGED <<acc, eqv>>

\* source.request_stop()
MainRequestStop ==
    /\ main.pc = "stop"
    /\ main' = [main EXCEPT !.stop = TRUE, !.pc = "call", !.call = 3]
    /\ UNCHANGED <<genVars, acc, eqv>>

\* one step of the coroutine parent_task
ParentTask(r) ==
    /\ fn(r) = "parent_task"
    /\ \/ /\ main.at[r] = 0
          /\ Start(r)
          /\ main' = [main EXCEPT !.at[r] = 1]
       \/ /\ main.at[r] = 1
          /\ Accessor(r)
          /\ main' = [main EXCEPT !.at[r] = 2]
       \/ /\ main.at[r] \in {2, 4}
          /\ AwaitChild(r)
          /\ main' = [main EXCEPT !.at[r] = @ + 1]
       \/ /\ main.at[r] = 3
          /\ \E h \in BOOLEAN : AwaitResumeChild(r, h) /\ (h <=> yielded'.kind = "value")
          /\ main' = [main EXCEPT !.a = yielded'.val,
                                  !.at[r] = IF yielded'.kind = "value" THEN 4 ELSE 7]
       \/ /\ main.at[r] = 5
          /\ \E h \in BOOLEAN : AwaitResumeChild(r, h) /\ (h <=> yielded'.kind = "value")
          /\ main' = [main EXCEPT !.at[r] = IF yielded'.kind = "value" THEN 6 ELSE 7]
       \/ /\ main.at[r] = 6
          /\ Return(r, parent_task_return(main.a, yielded.val))
          /\ main' = [main EXCEPT !.at[r] = 7]
       \/ /\ main.at[r] = 7
          /\ FinalSuspend(r)
          /\ main' = [main EXCEPT !.at[r] = 8]
    /\ UNCHANGED <<acc, eqv>>

\* one step of the coroutine compute(x)
Compute(r) ==
    /\ fn(r) = "compute"
    /\ \/ /\ main.at[r] = 0
          /\ Start(r)
          /\ main' = [main EXCEPT !.at[r] = 1]
       \/ /\ main.at[r] = 1
          /\ Accessor(r)
          /\ main' = [main EXCEPT !.at[r] = 2]
       \/ /\ main.at[r] = 2
          /\ AwaitReady(r, immediate_value(arg(r) * 10))
          /\ main' = [main EXCEPT !.at[r] = 3]
       \/ /\ main.at[r] = 3
          /\ Return(r, compute_return(yielded.val))
          /\ main' = [main EXCEPT !.at[r] = 4]
       \/ /\ main.at[r] = 4
          /\ FinalSuspend(r)
          /\ main' = [main EXCEPT !.at[r] = 5]
    /\ UNCHANGED <<acc, eqv>>

\* one step of the coroutine void_task
VoidTask(r) ==
    /\ fn(r) = "void_task"
    /\ \/ /\ main.at[r] = 0
          /\ Start(r)
          /\ main' = [main EXCEPT !.at[r] = 1]
       \/ /\ main.at[r] = 1
          /\ Accessor(r)
          /\ main' = [main EXCEPT
                         !.printed = Append(@, stop_requested(EnvAt(seen').stop_token,
                                                              main.stop)),
                         !.at[r] = 2]
       \/ /\ main.at[r] = 2
          /\ ReturnVoid(r)
          /\ main' = [main EXCEPT !.at[r] = 3]
       \/ /\ main.at[r] = 3
          /\ FinalSuspend(r)
          /\ main' = [main EXCEPT !.at[r] = 4]
    /\ UNCHANGED <<acc, eqv>>

NextMain ==
    \/ MainCreate
    \/ MainRunSync
    \/ MainRunSyncReturns
    \/ MainEndCall
    \/ MainRequestStop
    \/ \E r \in Recs : ParentTask(r)
    \/ \E r \in Recs : Compute(r)
    \/ \E r \in Recs : VoidTask(r)

SpecMain == InitMain /\ [][NextMain]_vars

\* ------------------------------------------------ executor_ref::operator==

\* addresses of executor objects, and the concrete executor types: an object
\* of one type may have an object of another type as its first member, at the
\* same address
Addrs == 1..MaxAddr
ExecutorTypes == {"inline_executor", "wrapping_executor"}
Ctxs == 1..MaxCtx

\* executor_ref: ex_ and vt_ (the vtable of the concrete type); default
\* constructed, both are null
NullRef == [ex_ |-> 0, vt_ |-> "null"]
ExecutorRefs == {NullRef} \cup [ex_ : Addrs, vt_ : ExecutorTypes]

\* vt_->equals: *static_cast<Ex const*>(a) == *static_cast<Ex const*>(b), which
\* for inline_executor compares ctx_
equals(vt, a, b, mem) == mem[<<a, vt>>] = mem[<<b, vt>>]

\* executor_ref::operator==
executor_ref_eq(a, b, mem) ==
    IF a.ex_ = b.ex_ THEN TRUE
    ELSE IF a.vt_ # b.vt_ THEN FALSE
    ELSE equals(a.vt_, a.ex_, b.ex_, mem)

\* the executor objects that exist, with the value each compares by
InitEq ==
    /\ InitGen
    /\ acc = NoAcc
    /\ main = NoMain
    /\ \E m \in [Addrs \X ExecutorTypes -> Ctxs] : eqv = [NoEq EXCEPT !.mem = m]

\* a == b for two handles
Compare(a, b) ==
    /\ eqv' = [eqv EXCEPT !.a = a, !.b = b, !.r = executor_ref_eq(a, b, eqv.mem)]
    /\ UNCHANGED <<genVars, acc, main>>

NextEq == \E a, b \in ExecutorRefs : Compare(a, b)

SpecEq == InitEq /\ [][NextEq]_vars

TypeOK ==
    /\ nextRec \in 1..(MaxFrames + 1)
    /\ running \in 0..MaxFrames
    /\ \A r \in Recs : cont_[r] \in 0..MaxFrames /\ awaiter[r] \in 0..MaxFrames
    /\ current_frame_allocator \in AllocOrNone

\* the root of the await chain a frame belongs to
RECURSIVE RootOf(_)
RootOf(r) == IF parent[r] = 0 THEN r ELSE RootOf(parent[r])

\* ------------------------------------------------------------------ C1
\* C1: the continuation stored in an awaited task is resumed exactly once and
\* only when the task is at its final suspension: while the task holds a
\* continuation, that frame stays suspended at the await and has not been
\* resumed; once the task is at final suspension the continuation has been
\* resumed once and cont_ reads as the no-op handle
C1_ContinuationOnce ==
    \A r \in Recs : Live(r) =>
        /\ resumes[r] <= 1
        /\ resumes[r] = 1 => pc[r] = "final" /\ parent[r] # 0
        /\ pc[r] = "final" => cont_[r] = Noop /\ (parent[r] # 0 => resumes[r] = 1)
        /\ cont_[r] # Noop =>
              /\ pc[r] # "final"
              /\ resumes[r] = 0
              /\ pc[cont_[r]] = "await_child"
              /\ running # cont_[r]

C1_Witness ==
    \E r \in Recs :
        Live(r) /\ pc[r] = "final" /\ parent[r] # 0 /\ resumes[r] = 1 /\ cont_[r] = Noop

\* ------------------------------------------------------------------ C2
\* C2: whatever the state of the computation, destroying tasks never calls
\* destroy on a computation record more than once
C2_DestroyedOnce == \A r \in Recs : destroyCalls[r] <= 1

\* ------------------------------------------------------------------ C3
\* the task objects that exist: the caller's, run_sync's parameter t while
\* run_sync executes, and the task an awaiting frame holds in its awaiter
TaskObjects ==
    {<<"slot", s>> : s \in {x \in Slots : slotState[x] = "live"}}
      \cup {<<"awaiter", r>> : r \in {x \in Recs : Live(x)}}
      \cup (IF rsPc = "resumed" THEN {<<"t", 0>>} ELSE {})

HandleOf(o) ==
    IF o[1] = "slot" THEN h_[o[2]] ELSE IF o[1] = "awaiter" THEN awaiter[o[2]] ELSE rsTask

\* C3: every task object's handle is null or refers to a live computation
\* record, and no two task objects hold the same non-null handle
C3_SingleOwner ==
    /\ \A o \in TaskObjects : HandleOf(o) # 0 => Live(HandleOf(o))
    /\ \A o1, o2 \in TaskObjects :
          o1 # o2 /\ HandleOf(o1) # 0 => HandleOf(o1) # HandleOf(o2)

\* a moved-from task and a released task are null while the record lives on
C3_Witness ==
    /\ rsPc = "resumed"
    /\ rsTask = 0
    /\ Live(rsH)
    /\ \A s \in Slots : slotState[s] = "live" /\ h_[s] = 0

\* ------------------------------------------------------------------ C4
\* C4: run_sync inspects the root's failure and result, and returns, only
\* when the root is at its final suspension
C4_RunSyncBlocks == rsOutcome # "none" => rsSawPc = "final"

\* ------------------------------------------------------------------ C5
\* C5: a task awaited from a parent holds the parent's environment pointer,
\* hence the pointer of the root of its chain, at any depth, and the pointer
\* an implicit accessor yields in a task is the one of the root of its chain
C5_EnvPropagation ==
    /\ [](\A r \in Recs : Live(r) /\ parent[r] # 0 =>
            /\ env_[r] # NullEnv
            /\ env_[r] = env_[parent[r]]
            /\ env_[r] = env_[RootOf(r)]
            /\ EnvAt(env_[r]) = EnvAt(env_[RootOf(r)]))
    /\ [][seen' # seen => running # 0 /\ seen' = env_[RootOf(running)]]_vars

\* a grandchild is running under the snapshot of the root and has read it
C5_Witness ==
    \E r \in Recs :
        /\ Live(r) /\ running = r /\ pc[r] = "run"
        /\ parent[r] # 0 /\ parent[parent[r]] # 0
        /\ seen = env_[r]
        /\ env_[RootOf(r)] # NullEnv

\* ------------------------------------------------------------------ C6
\* C6: the deallocate call made for a frame goes to the allocator that served
\* the frame's allocation, with the size of that allocation
C6_AllocatorRoundTrip ==
    [][deallocs' # deallocs =>
         \A d \in deallocs' :
            /\ d.call.mr = frame[d.rec].served
            /\ d.call.total = frame[d.rec].total]_vars

\* a frame served by one allocator was released while the slot held another
C6_Witness ==
    \E d \in deallocs :
        d.call.mr \in Allocs /\ d.active \in Allocs /\ d.active # d.call.mr

\* ------------------------------------------------------------------ C7
\* the step in which frame p executes the await_resume of the task it awaited
Retrieves(p) == pc[p] = "resumed_child" /\ pc'[p] # "resumed_child"

\* C7: a failure raised by a task's body is stored in its record; the task
\* still reaches final suspension and resumes its continuation, whose own
\* record holds no failure until it retrieves the result; the retrieval hands
\* over the stored failure if there is one and the stored result otherwise
C7_FailureLazy ==
    /\ [](\A c \in Recs : Live(c) /\ raised[c] =>
            /\ Terminal(c)
            /\ ep_[c] = c
            /\ result_[c] = 0
            /\ (pc[c] = "final" /\ parent[c] # 0 =>
                  /\ resumes[c] = 1
                  /\ pc[parent[c]] = "resumed_child"
                  /\ running = parent[c]
                  /\ ep_[parent[c]] = 0))
    /\ [][\A p \in Recs : Retrieves(p) =>
            LET c == awaiter[p]
            IN IF ep_[c] # 0
               THEN /\ yielded' = [kind |-> "failure", val |-> ep_[c]]
                    /\ ep_'[p] \in {0, ep_[c]}
                    /\ pc'[p] = "done" <=> ep_'[p] = ep_[c]
               ELSE /\ yielded' = [kind |-> "value", val |-> result_[c]]
                    /\ ep_'[p] = 0
                    /\ pc'[p] = "run"]_vars

\* a parent caught the failure of its child and goes on
C7_Witness ==
    \E p \in Recs :
        /\ Live(p) /\ running = p /\ pc[p] = "run" /\ ep_[p] = 0
        /\ yielded.kind = "failure" /\ yielded.val # p /\ parent[yielded.val] = p

\* ------------------------------------------------------------------ C8
\* C8: when run_sync inspected a root at final suspension it rethrew the
\* root's failure, returning nothing, or returned the root's result; a failure
\* it rethrows was raised by a task of the root's chain
C8_RunSyncOutcome ==
    rsOutcome # "none" /\ rsSawPc = "final" =>
        IF ep_[rsH] # 0
        THEN /\ rsOutcome = "threw"
             /\ rsExc = ep_[rsH]
             /\ rsValue = 0
             /\ RootOf(rsExc) = rsH
        ELSE /\ rsOutcome = "returned"
             /\ rsExc = 0
             /\ rsValue = result_[rsH]
             /\ rsValue \in Values

\* the failure of a descendant reached the caller of run_sync
C8_Witness == rsOutcome = "threw" /\ rsSawPc = "final" /\ rsExc # rsH

\* ------------------------------------------------------------------ C9
\* the step in which the body of r starts, or resumes from an await
Resumption(r) ==
    \/ pc[r] = "entry" /\ pc'[r] = "run"
    \/ pc[r] = "await_ext" /\ pc'[r] = "run"
    \/ Retrieves(r)
    \/ running = r /\ pc[r] = "run" /\ pc'[r] = "run" /\ yielded' # yielded

\* C9 as stated: after every such step the slot holds the allocator of the
\* task's snapshot, none included
C9_SlotMatchesSnapshot ==
    [][\A r \in Recs : Resumption(r) =>
          current_frame_allocator' = EnvAt(env_[r]).allocator]_vars

\* C9 as amended: after every such step the slot holds the allocator of the
\* task's snapshot if the snapshot holds one, and is left as it was if the
\* snapshot holds none
C9_SlotSyncedUnlessNone ==
    [][\A r \in Recs : Resumption(r) =>
          current_frame_allocator' =
             IF EnvAt(env_[r]).allocator # "none"
             THEN EnvAt(env_[r]).allocator
             ELSE current_frame_allocator]_vars

\* a task whose frame was allocated while the slot held another allocator
\* runs with the slot set to the allocator of its snapshot
C9_Witness ==
    \E r \in Recs :
        /\ Live(r) /\ running = r /\ pc[r] = "run"
        /\ EnvAt(env_[r]).allocator = "A"
        /\ current_frame_allocator = "A"
        /\ frame[r].served = "B"

\* ------------------------------------------------------------------ C10
\* C10: while the task a frame awaits is not at final suspension the frame
\* stays suspended at that await, and a later child of the same parent
\* exists only when every earlier one reached final suspension
C10_DepthFirst ==
    /\ \A p \in Recs : Live(p) /\ awaiter[p] # 0 =>
          /\ parent[awaiter[p]] = p
          /\ pc[awaiter[p]] # "final" => pc[p] = "await_child" /\ running # p
    /\ \A c1, c2 \in Recs :
          c1 < c2 /\ Allocated(c2) /\ parent[c1] # 0 /\ parent[c1] = parent[c2]
             => pc[c1] = "final"

\* the second child of a parent is running
C10_Witness ==
    \E c1, c2 \in Recs :
        /\ c1 < c2 /\ parent[c1] # 0 /\ parent[c1] = parent[c2]
        /\ running = c2 /\ pc[c2] = "run"

\* ------------------------------------------------------------------ C11
\* C11: a task is lazy: the step that creates its record leaves it before the
\* first step of its body, and a record that has not been resumed holds no
\* result, no failure and no awaited task; the body's first step is taken by
\* the record in control, which got control because a parent awaited it
\* (its continuation is that parent, suspended at the await) or because a
\* driver resumed its handle
C11_Lazy ==
    /\ [](\A r \in Recs : Live(r) /\ pc[r] = "entry" =>
            result_[r] = 0 /\ ep_[r] = 0 /\ awaiter[r] = 0 /\ ~raised[r])
    /\ [][\A r \in Recs :
            /\ pc[r] = "none" => pc'[r] \in {"none", "entry"}
            /\ pc[r] = "entry" /\ pc'[r] # "entry" =>
                  /\ pc'[r] = "run"
                  /\ running = r
                  /\ IF parent[r] # 0
                     THEN /\ cont_[r] = parent[r]
                          /\ awaiter[parent[r]] = r
                          /\ pc[parent[r]] = "await_child"
                     ELSE cont_[r] = Noop]_vars

\* a task constructed while the slot was empty took its first step only after
\* the slot had been set and a driver resumed it
C11_Witness ==
    \E r \in Recs :
        /\ Live(r) /\ parent[r] = 0 /\ running = r /\ pc[r] = "run"
        /\ rsPc = "idle"
        /\ frame[r].served = get_default_resource
        /\ current_frame_allocator = "B"

\* ------------------------------------------------------------------ C12
\* C12: cancellation unwinds nothing: in main, the void_task driven with a
\* token of a source on which stop was not requested prints "not requested",
\* the one driven after source.request_stop() prints "requested", and each
\* runs its whole body to final suspension with no failure captured, after
\* which run_sync returns normally
C12_NoUnwind ==
    /\ main.pc # "terminated"
    /\ \A r \in Recs : fn(r) = "void_task" /\ Live(r) => ep_[r] = 0 /\ ~raised[r]
    /\ main.pc = "ret" /\ main.call >= 2 =>
          /\ fn(rsH) = "void_task"
          /\ rsOutcome = "returned"
          /\ rsSawPc = "final"
          /\ main.at[rsH] = 4
          /\ Len(main.printed) = main.call - 1
          /\ main.stop = (main.call = 3)
          /\ main.printed[main.call - 1] = main.stop

\* both runs of void_task returned: the first printed "not requested", the
\* second "requested"
C12_Witness ==
    main.pc = "ret" /\ main.call = 3 /\ main.printed = <<FALSE, TRUE>>

\* ------------------------------------------------------------------ C13
\* C13: the value run_sync returns to main for parent_task is the sum of the
\* results of the two compute children, (a*10+1) + (b*10+1) for the inputs a
\* and b, which is 102 for the inputs 3 and 7 of the source
C13_Result ==
    (main.call = 1 /\ main.pc = "ret") \/ main.call >= 2 =>
        /\ main.result = (main.in[1] * 10 + 1) + (main.in[2] * 10 + 1)
        /\ main.in = <<3, 7>> => main.result = 102
        /\ main.call = 1 =>
              /\ rsOutcome = "returned"
              /\ rsSawPc = "final"
              /\ result_[rsH] = main.result

\* run_sync returned 102 for the inputs 3 and 7
C13_Witness ==
    main.pc = "ret" /\ main.call = 1 /\ main.in = <<3, 7>> /\ main.result = 102

\* ------------------------------------------------------------------ C14
\* C14: a step in which a task evaluates one of the four accessors yields the
\* task's environment pointer, or the component of the snapshot it refers to
\* that the accessor names; the task keeps control at the same position (it
\* does not suspend) and its continuation, every environment pointer and the
\* active-allocator slot are as before
C14_Accessors ==
    [][seen' # seen \/ acc' # NoAcc =>
          /\ running # 0 /\ running' = running
          /\ pc[running] = "run" /\ pc' = pc
          /\ cont_' = cont_
          /\ env_' = env_
          /\ current_frame_allocator' = current_frame_allocator
          /\ seen' # seen => seen' = env_[running] /\ acc' = NoAcc
          /\ acc' # NoAcc =>
                /\ seen' = seen
                /\ acc'.tag \in ComponentTags
                /\ acc'.tag = "executor" => acc'.val = EnvAt(env_[running]).executor
                /\ acc'.tag = "stop_token" => acc'.val = EnvAt(env_[running]).stop_token
                /\ acc'.tag = "allocator" => acc'.val = EnvAt(env_[running]).allocator]_vars

\* a task awaited by another reads the token run_sync was given while the
\* slot holds an allocator the snapshot does not name
C14_Witness ==
    /\ acc = [tag |-> "stop_token", val |-> "tok"]
    /\ running # 0 /\ parent[running] # 0
    /\ env_[running] = RsEnv
    /\ current_frame_allocator = "B"

\* ------------------------------------------------------------------ C15
\* C15: the step in which a task's body starts reads a non-null environment
\* pointer: a task started by an await holds its continuation, the frame
\* suspended at that await, and that frame's environment pointer; a task
\* started by run_sync holds the address of run_sync's snapshot, which is
\* within its lifetime
C15_EnvBeforeStart ==
    [][\A r \in Recs : pc[r] = "entry" /\ pc'[r] = "run" =>
          /\ env_[r] # NullEnv
          /\ parent[r] # 0 =>
                /\ cont_[r] = parent[r]
                /\ pc[parent[r]] = "await_child"
                /\ env_[r] = env_[parent[r]]
          /\ parent[r] = 0 /\ rsPc = "resumed" =>
                /\ rsH = r
                /\ env_[r] = RsEnv
                /\ rsEnvLive
                /\ EnvAt(env_[r]) \in {[executor |-> in[1], stop_token |-> in[2],
                                        allocator |-> "none"] : in \in RsInputs}]_vars

\* a task awaited by the root run_sync drives has started under run_sync's
\* snapshot
C15_Witness ==
    \E r \in Recs :
        /\ Live(r) /\ running = r /\ pc[r] = "run"
        /\ parent[r] = rsH /\ rsPc = "resumed"
        /\ env_[r] = RsEnv /\ cont_[r] = rsH

\* ------------------------------------------------------------------ C16
\* C16: the step that creates a task's frame obtains it from the allocator
\* the active-allocator slot holds at that moment, from the global default
\* exactly when the slot is empty, records that allocator behind the frame,
\* and leaves the slot as it was
C16_FrameFromSlot ==
    [][\A r \in Recs : pc[r] = "none" /\ pc'[r] # "none" =>
          /\ frame'[r].served =
                IF current_frame_allocator = "none" THEN get_default_resource
                                                    ELSE current_frame_allocator
          /\ frame'[r].served = get_default_resource <=> current_frame_allocator = "none"
          /\ frame'[r].hdr = frame'[r].served
          /\ frame'[r].size = frame_size(r)
          /\ frame'[r].total >= frame'[r].size + ptr_size
          /\ current_frame_allocator' = current_frame_allocator]_vars

\* a root created while the slot was empty came from the default allocator,
\* and the child it awaits came from the allocator of its snapshot
C16_Witness ==
    \E r \in Recs :
        /\ Live(r) /\ parent[r] # 0 /\ Live(parent[r])
        /\ frame[parent[r]].served = get_default_resource
        /\ frame[r].served = "A"

\* ------------------------------------------------------------------ C17
\* C17: a == b is true when both handles refer to the same executor object or
\* both are null; false when they refer to distinct objects of different
\* concrete types, and when exactly one is null; the concrete type's equality
\* when they refer to distinct objects of one type; and b == a gives the same
\* result (a handle is an object's address and type, so two handles refer to
\* the same object exactly when they are the same handle)
C17_Equality ==
    eqv.a # <<>> =>
        LET a == eqv.a
            b == eqv.b
        IN /\ a = b => eqv.r
           /\ a # NullRef /\ b # NullRef /\ a.vt_ # b.vt_ => ~eqv.r
           /\ (a = NullRef) # (b = NullRef) => ~eqv.r
           /\ a # b /\ a.vt_ = b.vt_ =>
                 eqv.r = (eqv.mem[<<a.ex_, a.vt_>>] = eqv.mem[<<b.ex_, b.vt_>>])
           /\ eqv.r = executor_ref_eq(b, a, eqv.mem)

\* ------------------------------------------------------------------ C18
\* C18: once run_sync has returned or rethrown, every computation record of
\* the chain it drove, the root included, has been destroyed exactly once
C18_NoLiveRecord ==
    rsPc = "idle" /\ rsOutcome # "none" =>
        \A r \in Recs : Allocated(r) /\ RootOf(r) = rsH => destroyCalls[r] = 1

\* ------------------------------------------------------------------ C19
\* C19: whenever a task has control (it was resumed, it may evaluate an
\* accessor) and its environment pointer is the address of run_sync's
\* snapshot, that snapshot is within its lifetime
C19_EnvAlive ==
    \A r \in Recs : running = r /\ Live(r) /\ env_[r] = RsEnv => rsEnvLive

\* ------------------------------------------------------------------ C20
\* C20: a move assignment of task B into another task A makes A hold the
\* handle B held and leaves B null; if A held a record, destroy has been
\* called on that record exactly once, and on no record that was not part
\* of its chain
C20_MoveAssign ==
    [][slotState' = slotState /\ rsPc' = rsPc /\ h_' # h_ =>
          \E d, s \in Slots :
              /\ d # s
              /\ h_'[d] = h_[s]
              /\ h_'[s] = 0
              /\ h_[d] # 0 => destroyCalls[h_[d]] = 0 /\ destroyCalls'[h_[d]] = 1
              /\ h_[s] # 0 => destroyCalls'[h_[s]] = 0
              /\ \A r \in Recs : destroyCalls'[r] <= 1]_vars
====
